---- MODULE Spec2Model ----
(***************************************************************************)
(* The project step-state store of dcx-coach-api/app.py: the projects      *)
(* table, and the create / get / update request handlers run by a pool of  *)
(* worker threads, each with its own database session.                     *)
(***************************************************************************)
EXTENDS Integers, Sequences, FiniteSets, TLC

\* ------------------------------------------------------------------ bounds
\* The clock reads 0..MaxClock.
MaxClock == 1

\* ------------------------------------------------------- values and inputs
\* Python's None / SQL NULL for an Optional[str].
None == "None"

\* An Optional[int] or Optional[dict] is a set with at most one element.
Some(x) == {x}
Nothing == {}

Threads == {"t1", "t2"}

\* The identifiers gen_project_id can hand out, and one it never does.
Ids == {"p1", "p2"}
LookupIds == Ids \cup {"nonexistent-id"}

\* The six step columns of the projects table.
StepColumns == {"step0", "step1", "step2", "step3", "step4", "step5"}

\* The values the pattern of CreateProjectRequest.mode accepts.
Modes == {"contest", "education", "startup"}

\* Request bodies of POST /projects; titles are sequences of characters.
CreateReq(title, mode, description) ==
  [title |-> title, mode |-> mode, description |-> description]

CreateReqs ==
  { CreateReq(<<"a">>, "contest", None),
    CreateReq(<< >>, "education", "d"),
    CreateReq(<<"a">>, "other", "d") }

\* The bodies the single client posts.
SeqCreateReqs ==
  { CreateReq(<<"a">>, "contest", None),
    CreateReq(<<"a">>, "other", "d") }

\* Request bodies of PATCH /projects/{project_id}.
UpdateReq(last_step, steps) == [last_step |-> last_step, steps |-> steps]

Dict1(k, v) == [x \in {k} |-> v]
Dict2(k1, v1, k2, v2) == [x \in {k1, k2} |-> IF x = k1 THEN v1 ELSE v2]

UpdateReqs ==
  { UpdateReq(Nothing, Nothing),
    UpdateReq(Nothing, Some(<< >>)),
    UpdateReq(Some(-1), Nothing),
    UpdateReq(Some(6), Some(Dict1("step0", "A"))),
    UpdateReq(Some(5), Nothing),
    UpdateReq(Some(0), Some(Dict1("step1", "B"))),
    UpdateReq(Nothing, Some(Dict1("step0", "A"))),
    UpdateReq(Nothing, Some(Dict1("step0", None))),
    UpdateReq(Nothing, Some(Dict2("stepX", "A", "step1", "B"))) }

\* The updates that race on one project.
RaceReqs ==
  { UpdateReq(Nothing, Some(Dict2("step0", "A", "step1", None))),
    UpdateReq(Nothing, Some(Dict2("step0", None, "step1", "A"))),
    UpdateReq(Some(5), Some(Dict1("step0", "B"))),
    UpdateReq(Some(0), Some(Dict1("step1", "B"))),
    UpdateReq(Some(3), Nothing) }

\* The updates that arrive concurrently.
ConcUpdateReqs ==
  { UpdateReq(Nothing, Nothing),
    UpdateReq(Some(-1), Nothing),
    UpdateReq(Some(0), Some(Dict1("step0", None))),
    UpdateReq(Some(6), Some(Dict1("step0", "A"))),
    UpdateReq(Some(5), Some(Dict1("step0", "A"))),
    UpdateReq(Nothing, Some(Dict2("stepX", "A", "step1", "B"))) }

\* ------------------------------------------------------------------- state
VARIABLES
  store,   \* the projects table: project_id -> row
  clock,   \* what datetime.utcnow() returns
  pc,      \* where each worker thread is in its handler
  req,     \* the request a thread is handling, or handled last
  sess,    \* a thread's session: the row as loaded and the object in memory
  resp,    \* the response a thread produced last
  origin,  \* history: the body each project was created from, and whether an
           \* update of it has been committed since
  note     \* history, per thread: "again" when the update in hand repeats the
           \* thread's previous, successful update; "overlap" when the get in
           \* hand ran while another thread held the same project loaded

vars == <<store, clock, pc, req, sess, resp, origin, note>>

NoReq == [kind |-> "none"]
NoSess == [state |-> "closed"]
NoResp == [status |-> "none"]

\* ----------------------------------------------------------- pure helpers
\* Mutants of ValidUpdate: the upper bound off by one; the lower bound missing.
ValidUpdateLoose(r) == \A n \in r.last_step : n >= 0 /\ n <= 6
ValidUpdateNoLower(r) == \A n \in r.last_step : n <= 5

\* Field(ge=0, le=5) on UpdateProjectStepsRequest.last_step.
ValidUpdate(r) == \A n \in r.last_step : n >= 0 /\ n <= 5

\* title: str (any string) and mode matching the pattern.
ValidCreate(r) == r.mode \in Modes

now_utc == clock

\* Mutant of normalize_steps: the filter inverted.
normalize_steps_inverted(steps) ==
  LET allowed == {"step0", "step1", "step2", "step3", "step4", "step5"}
  IN  [k \in {x \in DOMAIN steps : x \notin allowed} |-> steps[k]]

normalize_steps(steps) ==
  LET allowed == {"step0", "step1", "step2", "step3", "step4", "step5"}
  IN  [k \in {x \in DOMAIN steps : x \in allowed} |-> steps[k]]

get_steps_dict(p) ==
  [k \in {"step0", "step1", "step2", "step3", "step4", "step5"} |-> p.steps[k]]

\* Mutant of NewProject: the description is not passed on.
NewProjectNoDescription(r, created, updated) ==
  [title |-> r.title, mode |-> r.mode, description |-> None,
   last_step |-> 0,
   steps |-> [k \in StepColumns |-> None],
   created_at |-> created, updated_at |-> updated]

\* Mutant of NewProject: the two timestamps are exchanged.
NewProjectSwapped(r, created, updated) ==
  [title |-> r.title, mode |-> r.mode, description |-> r.description,
   last_step |-> 0,
   steps |-> [k \in StepColumns |-> None],
   created_at |-> updated, updated_at |-> created]

\* Project(...) as create_project builds it: the step columns default to NULL.
NewProject(r, created, updated) ==
  [title |-> r.title, mode |-> r.mode, description |-> r.description,
   last_step |-> 0,
   steps |-> [k \in StepColumns |-> None],
   created_at |-> created, updated_at |-> updated]

\* The steps dictionary of an update request; none is as good as empty.
SubmittedSteps(r) == IF r.steps = Nothing THEN << >> ELSE CHOOSE d \in r.steps : TRUE

\* Mutant of ApplyRequest: the submitted steps replace the whole mapping, so
\* the slots not named are cleared.
ApplyRequestReplace(p, r, now) ==
  LET p1 == IF r.last_step # Nothing
            THEN [p EXCEPT !.last_step = CHOOSE n \in r.last_step : TRUE]
            ELSE p
      d  == normalize_steps(SubmittedSteps(r))
      p2 == IF d # << >>
            THEN [p1 EXCEPT !.steps =
                    [k \in DOMAIN p1.steps \cup DOMAIN d |->
                       IF k \in DOMAIN d THEN d[k] ELSE None]]
            ELSE p1
  IN  [p2 EXCEPT !.updated_at = now]

\* Mutant of ApplyRequest: last_step is advanced by the submitted number.
ApplyRequestAdd(p, r, now) ==
  LET p1 == IF r.last_step # Nothing
            THEN [p EXCEPT !.last_step = @ + (CHOOSE n \in r.last_step : TRUE)]
            ELSE p
      d  == normalize_steps(SubmittedSteps(r))
      p2 == [p1 EXCEPT !.steps =
               [k \in DOMAIN p1.steps \cup DOMAIN d |->
                  IF k \in DOMAIN d THEN d[k] ELSE p1.steps[k]]]
  IN  [p2 EXCEPT !.updated_at = now]

\* Mutant of ApplyRequest: updated_at is refreshed only when the request
\* carries something.
ApplyRequestLazy(p, r, now) ==
  LET p1 == IF r.last_step # Nothing
            THEN [p EXCEPT !.last_step = CHOOSE n \in r.last_step : TRUE]
            ELSE p
      d  == IF SubmittedSteps(r) # << >>
            THEN normalize_steps(SubmittedSteps(r))
            ELSE << >>
      p2 == [p1 EXCEPT !.steps =
               [k \in DOMAIN p1.steps \cup DOMAIN d |->
                  IF k \in DOMAIN d THEN d[k] ELSE p1.steps[k]]]
  IN  IF r.last_step = Nothing /\ r.steps = Nothing
      THEN p2 ELSE [p2 EXCEPT !.updated_at = now]

\* Mutant of ApplyRequest: last_step is tested for truth, so 0 is not applied.
ApplyRequestTruthy(p, r, now) ==
  LET p1 == IF r.last_step # Nothing /\ r.last_step # {0}
            THEN [p EXCEPT !.last_step = CHOOSE n \in r.last_step : TRUE]
            ELSE p
      d  == IF SubmittedSteps(r) # << >>
            THEN normalize_steps(SubmittedSteps(r))
            ELSE << >>
      p2 == [p1 EXCEPT !.steps =
               [k \in DOMAIN p1.steps \cup DOMAIN d |->
                  IF k \in DOMAIN d THEN d[k] ELSE p1.steps[k]]]
  IN  [p2 EXCEPT !.updated_at = now]

\* The body of update_project_steps between the query and the commit: the
\* attribute assignments on the loaded object.
ApplyRequest(p, r, now) ==
  LET p1 == IF r.last_step # Nothing
            THEN [p EXCEPT !.last_step = CHOOSE n \in r.last_step : TRUE]
            ELSE p
      d  == IF SubmittedSteps(r) # << >>
            THEN normalize_steps(SubmittedSteps(r))
            ELSE << >>
      p2 == [p1 EXCEPT !.steps =
               [k \in DOMAIN p1.steps \cup DOMAIN d |->
                  IF k \in DOMAIN d THEN d[k] ELSE p1.steps[k]]]
  IN  [p2 EXCEPT !.updated_at = now]

\* Mutant of Flush: the step columns are written only when last_step is not.
FlushPartial(stored, loaded, obj) ==
  [stored EXCEPT
     !.last_step = IF obj.last_step # loaded.last_step THEN obj.last_step ELSE @,
     !.steps = [k \in StepColumns |->
                  IF obj.last_step = loaded.last_step /\ obj.steps[k] # loaded.steps[k]
                  THEN obj.steps[k]
                  ELSE stored.steps[k]],
     !.updated_at = IF obj.updated_at # loaded.updated_at THEN obj.updated_at ELSE @]

\* Mutant of Flush: the UPDATE stamps created_at as well.
FlushStamp(stored, loaded, obj) ==
  [stored EXCEPT
     !.last_step = IF obj.last_step # loaded.last_step THEN obj.last_step ELSE @,
     !.steps = [k \in StepColumns |->
                  IF obj.steps[k] # loaded.steps[k] THEN obj.steps[k]
                  ELSE stored.steps[k]],
     !.created_at = obj.updated_at,
     !.updated_at = IF obj.updated_at # loaded.updated_at THEN obj.updated_at ELSE @]

\* db.commit() of a loaded, modified object: the session's unit of work
\* issues one UPDATE ... WHERE project_id = ?, in one transaction, that sets
\* the mapped columns whose value differs from the value this session loaded
\* (an attribute assigned the value it already had is no change), on the row
\* as it is now.
Flush(stored, loaded, obj) ==
  [stored EXCEPT
     !.last_step = IF obj.last_step # loaded.last_step THEN obj.last_step ELSE @,
     !.steps = [k \in StepColumns |->
                  IF obj.steps[k] # loaded.steps[k] THEN obj.steps[k]
                  ELSE stored.steps[k]],
     !.updated_at = IF obj.updated_at # loaded.updated_at THEN obj.updated_at ELSE @]

\* update_project_steps run from the query to the commit with no other
\* request in between.
Serial(p, r, now) == Flush(p, p, ApplyRequest(p, r, now))

\* ProjectDetail as get_project returns it.
Detail(id, p) ==
  [project_id |-> id, title |-> p.title, mode |-> p.mode,
   description |-> p.description, last_step |-> p.last_step,
   steps |-> get_steps_dict(p)]

\* ----------------------------------------------------------------- actions
Init ==
  /\ store = << >>
  /\ clock = 0
  /\ pc = [t \in Threads |-> "idle"]
  /\ req = [t \in Threads |-> NoReq]
  /\ sess = [t \in Threads |-> NoSess]
  /\ resp = [t \in Threads |-> NoResp]
  /\ origin = << >>
  /\ note = [t \in Threads |-> ""]

Ready(t) == pc[t] \in {"idle", "done"}

\* Time passes.
Tick ==
  /\ clock < MaxClock
  /\ clock' = clock + 1
  /\ UNCHANGED <<store, pc, req, sess, resp, origin, note>>

\* The identifiers other threads have generated and not yet inserted.
Pending(t) ==
  {sess[u].project_id :
     u \in {x \in Threads \ {t} : pc[x] \in {"create_now", "create_commit"}}}

\* POST /projects with a body the schema rejects: 422 before the handler runs.
CreateRejected(t, r) ==
  /\ Ready(t)
  /\ ~ValidCreate(r)
  /\ pc' = [pc EXCEPT ![t] = "done"]
  /\ req' = [req EXCEPT ![t] = [kind |-> "create", body |-> r]]
  /\ sess' = [sess EXCEPT ![t] = NoSess]
  /\ resp' = [resp EXCEPT ![t] = [status |-> "ValidationError"]]
  /\ note' = [note EXCEPT ![t] = ""]
  /\ UNCHANGED <<store, clock, origin>>

\* create_project up to created_at=now_utc(); id is what gen_project_id
\* returns, an identifier no one else holds.
CreateBegin(t, r, id) ==
  /\ Ready(t)
  /\ ValidCreate(r)
  /\ id \notin DOMAIN store \cup Pending(t)
  /\ sess' = [sess EXCEPT ![t] =
                [state |-> "new", project_id |-> id, created_at |-> now_utc]]
  /\ pc' = [pc EXCEPT ![t] = "create_now"]
  /\ req' = [req EXCEPT ![t] = [kind |-> "create", body |-> r]]
  /\ resp' = [resp EXCEPT ![t] = NoResp]
  /\ note' = [note EXCEPT ![t] = ""]
  /\ UNCHANGED <<store, clock, origin>>

\* updated_at=now_utc(), and db.add(p).
CreateAdd(t) ==
  /\ pc[t] = "create_now"
  /\ sess' = [sess EXCEPT ![t] =
                [state |-> "pending", project_id |-> sess[t].project_id,
                 obj |-> NewProject(req[t].body, sess[t].created_at, now_utc)]]
  /\ pc' = [pc EXCEPT ![t] = "create_commit"]
  /\ UNCHANGED <<store, clock, req, resp, origin, note>>

\* db.commit(): the INSERT.
CreateCommit(t) ==
  /\ pc[t] = "create_commit"
  /\ store' = [id \in DOMAIN store \cup {sess[t].project_id} |->
                 IF id = sess[t].project_id THEN sess[t].obj ELSE store[id]]
  /\ origin' = [id \in DOMAIN origin \cup {sess[t].project_id} |->
                  IF id = sess[t].project_id
                  THEN [body |-> req[t].body, touched |-> FALSE]
                  ELSE origin[id]]
  /\ resp' = [resp EXCEPT ![t] =
                [status |-> "ok", project_id |-> sess[t].project_id]]
  /\ sess' = [sess EXCEPT ![t] = NoSess]
  /\ pc' = [pc EXCEPT ![t] = "done"]
  /\ UNCHANGED <<clock, req, note>>

\* The threads other than t that hold project id loaded for an update.
Holding(t, id) ==
  {u \in Threads \ {t} : pc[u] \in {"upd_modify", "upd_commit"} /\ req[u].id = id}

\* GET /projects/{project_id}: one SELECT.
GetProject(t, id) ==
  /\ Ready(t)
  /\ req' = [req EXCEPT ![t] = [kind |-> "get", id |-> id]]
  /\ resp' = [resp EXCEPT ![t] =
                IF id \in DOMAIN store
                THEN [status |-> "ok", body |-> Detail(id, store[id])]
                ELSE [status |-> "NotFound"]]
  /\ sess' = [sess EXCEPT ![t] = NoSess]
  /\ pc' = [pc EXCEPT ![t] = "done"]
  /\ note' = [note EXCEPT ![t] = IF Holding(t, id) # {} THEN "overlap" ELSE ""]
  /\ UNCHANGED <<store, clock, origin>>

\* PATCH with a body the schema rejects: 422 before the handler runs.
UpdateRejected(t, id, r) ==
  /\ Ready(t)
  /\ ~ValidUpdate(r)
  /\ req' = [req EXCEPT ![t] = [kind |-> "update", id |-> id, body |-> r]]
  /\ resp' = [resp EXCEPT ![t] = [status |-> "ValidationError"]]
  /\ sess' = [sess EXCEPT ![t] = NoSess]
  /\ pc' = [pc EXCEPT ![t] = "done"]
  /\ note' = [note EXCEPT ![t] = ""]
  /\ UNCHANGED <<store, clock, origin>>

\* Mutant of UpdateQuery: a project that is not found is created.
UpdateQueryUpsert(t, id, r) ==
  /\ Ready(t)
  /\ ValidUpdate(r)
  /\ req' = [req EXCEPT ![t] = [kind |-> "update", id |-> id, body |-> r]]
  /\ store' = IF id \in DOMAIN store THEN store
              ELSE [x \in DOMAIN store \cup {id} |->
                      IF x = id THEN NewProject(CreateReq(<< >>, "contest", None), now_utc, now_utc)
                      ELSE store[x]]
  /\ origin' = IF id \in DOMAIN store THEN origin
               ELSE [x \in DOMAIN origin \cup {id} |->
                       IF x = id
                       THEN [body |-> CreateReq(<< >>, "contest", None), touched |-> FALSE]
                       ELSE origin[x]]
  /\ sess' = [sess EXCEPT ![t] =
                [state |-> "loaded", loaded |-> store'[id], obj |-> store'[id]]]
  /\ resp' = [resp EXCEPT ![t] = NoResp]
  /\ pc' = [pc EXCEPT ![t] = "upd_modify"]
  /\ note' = [note EXCEPT ![t] = ""]
  /\ UNCHANGED clock

\* update_project_steps: the query, and the 404 when it finds nothing. The
\* SELECT takes no lock that outlives it: other sessions may commit before
\* this one does.
UpdateQuery(t, id, r) ==
  /\ Ready(t)
  /\ ValidUpdate(r)
  /\ req' = [req EXCEPT ![t] = [kind |-> "update", id |-> id, body |-> r]]
  /\ IF id \in DOMAIN store
     THEN /\ sess' = [sess EXCEPT ![t] =
                        [state |-> "loaded", loaded |-> store[id], obj |-> store[id]]]
          /\ resp' = [resp EXCEPT ![t] = NoResp]
          /\ pc' = [pc EXCEPT ![t] = "upd_modify"]
          /\ note' = [note EXCEPT ![t] =
                        IF /\ pc[t] = "done"
                           /\ req[t] = [kind |-> "update", id |-> id, body |-> r]
                           /\ resp[t].status = "updated"
                        THEN "again" ELSE ""]
     ELSE /\ sess' = [sess EXCEPT ![t] = NoSess]
          /\ resp' = [resp EXCEPT ![t] = [status |-> "NotFound"]]
          /\ pc' = [pc EXCEPT ![t] = "done"]
          /\ note' = [note EXCEPT ![t] = ""]
  /\ UNCHANGED <<store, clock, origin>>

\* The assignments to the loaded object, up to p.updated_at = now_utc().
UpdateModify(t) ==
  /\ pc[t] = "upd_modify"
  /\ sess' = [sess EXCEPT ![t].obj = ApplyRequest(sess[t].obj, req[t].body, now_utc)]
  /\ pc' = [pc EXCEPT ![t] = "upd_commit"]
  /\ UNCHANGED <<store, clock, req, resp, origin, note>>

\* Mutant of UpdateCommit: the UPDATE has no WHERE clause.
UpdateCommitAll(t) ==
  /\ pc[t] = "upd_commit"
  /\ store' = [id \in DOMAIN store |-> Flush(store[id], sess[t].loaded, sess[t].obj)]
  /\ origin' = [origin EXCEPT ![req[t].id].touched = TRUE]
  /\ resp' = [resp EXCEPT ![t] = [status |-> "updated"]]
  /\ sess' = [sess EXCEPT ![t] = NoSess]
  /\ pc' = [pc EXCEPT ![t] = "done"]
  /\ UNCHANGED <<clock, req, note>>

\* db.commit(): the UPDATE.
UpdateCommit(t) ==
  /\ pc[t] = "upd_commit"
  /\ store' = [store EXCEPT ![req[t].id] = Flush(@, sess[t].loaded, sess[t].obj)]
  /\ origin' = [origin EXCEPT ![req[t].id].touched = TRUE]
  /\ resp' = [resp EXCEPT ![t] = [status |-> "updated"]]
  /\ sess' = [sess EXCEPT ![t] = NoSess]
  /\ pc' = [pc EXCEPT ![t] = "done"]
  /\ UNCHANGED <<clock, req, note>>

\* One step of thread t; the arguments are the sets its inputs come from.
Handler(t, ids, lookups, creates, updates) ==
  \/ \E r \in creates : CreateRejected(t, r)
  \/ \E r \in creates, id \in ids : CreateBegin(t, r, id)
  \/ CreateAdd(t)
  \/ CreateCommit(t)
  \/ \E id \in lookups : GetProject(t, id)
  \/ \E id \in lookups, r \in updates : UpdateRejected(t, id, r)
  \/ \E id \in lookups, r \in updates : UpdateQuery(t, id, r)
  \/ UpdateModify(t)
  \/ UpdateCommit(t)

\* The worker threads serve requests concurrently, on one project.
Next ==
  \/ Tick
  \/ \E t \in Threads :
       Handler(t, {"p1"}, {"p1", "nonexistent-id"}, CreateReqs, ConcUpdateReqs)

Spec == Init /\ [][Next]_vars

\* One client: each request is answered before the next is sent.
NextSeq ==
  \/ Tick
  \/ Handler("t1", Ids, LookupIds, SeqCreateReqs, UpdateReqs)

SpecSeq == Init /\ [][NextSeq]_vars

\* Two updates of one freshly created project, one per thread.
RaceBase == NewProject(CreateReq(<<"a">>, "contest", None), 0, 0)

InitRace ==
  /\ store = [id \in {"p1"} |-> RaceBase]
  /\ clock = 0
  /\ pc = [t \in Threads |-> "idle"]
  /\ req = [t \in Threads |-> NoReq]
  /\ sess = [t \in Threads |-> NoSess]
  /\ resp = [t \in Threads |-> NoResp]
  /\ origin = [id \in {"p1"} |->
                 [body |-> CreateReq(<<"a">>, "contest", None), touched |-> FALSE]]
  /\ note = [t \in Threads |-> ""]

NextRace ==
  \/ Tick
  \/ \E t \in Threads, r \in RaceReqs : pc[t] = "idle" /\ UpdateQuery(t, "p1", r)
  \/ \E t \in Threads : UpdateModify(t)
  \/ \E t \in Threads : UpdateCommit(t)

SpecRace == InitRace /\ [][NextRace]_vars

\* ---------------------------------------------------------------- listing
\* Query parameters of GET /projects.
ListReq(query, mode, limit) == [query |-> query, mode |-> mode, limit |-> limit]

ListQueries == {Nothing, Some(<<"a">>), Some(<<"_", "b">>), Some(<<"z">>)}

ListReqs ==
  { ListReq(q, m, l) :
      q \in ListQueries, m \in {Nothing, Some("contest"), Some("other")},
      l \in {0, 1, 50} }

\* The bodies and updates of the client that lists.
ListCreateReqs ==
  { CreateReq(<<"A", "b">>, "contest", None),
    CreateReq(<<"b">>, "education", None) }

ListUpdateReqs == { UpdateReq(Nothing, Nothing), UpdateReq(Some(3), Nothing) }

\* Query(pattern=...) on mode and Query(ge=1, le=200) on limit.
ValidList(r) ==
  /\ \A m \in r.mode : m \in Modes
  /\ r.limit >= 1 /\ r.limit <= 200

\* The LIKE operator of the database folds the case of ASCII letters.
Fold(c) == IF c = "A" THEN "a" ELSE IF c = "B" THEN "b" ELSE c

\* txt LIKE pat: "%" in pat stands for any run of characters, "_" for any
\* one character, every other character for itself in either case.
RECURSIVE Like(_, _)
Like(pat, txt) ==
  IF pat = << >> THEN txt = << >>
  ELSE IF Head(pat) = "%"
       THEN Like(Tail(pat), txt) \/ (txt # << >> /\ Like(pat, Tail(txt)))
       ELSE /\ txt # << >>
            /\ (Head(pat) = "_" \/ Fold(Head(pat)) = Fold(Head(txt)))
            /\ Like(Tail(pat), Tail(txt))

\* The filters of list_projects: an empty or absent query or mode is none.
Matches(p, r) ==
  /\ \A q \in r.query : q # << >> => Like(<<"%">> \o q \o <<"%">>, p.title)
  /\ \A m \in r.mode : p.mode = m

\* Mutant of OrderedDesc: ascending order.
OrderedAsc(ids) ==
  \A i, j \in DOMAIN ids : i < j => store[ids[i]].updated_at <= store[ids[j]].updated_at

\* order_by(Project.updated_at.desc()): rows of equal updated_at come in any
\* order.
OrderedDesc(ids) ==
  \A i, j \in DOMAIN ids : i < j => store[ids[i]].updated_at >= store[ids[j]].updated_at

\* .limit(limit)
Limit(ids, limit) == SubSeq(ids, 1, IF Len(ids) < limit THEN Len(ids) ELSE limit)

\* The arrangements of a set of rows in a sequence.
Arrangements(S) ==
  {f \in [1..Cardinality(S) -> S] : \A i, j \in 1..Cardinality(S) : i # j => f[i] # f[j]}

\* ProjectListItem as list_projects builds it.
ListItem(id, p) ==
  [project_id |-> id, title |-> p.title, mode |-> p.mode,
   last_step |-> p.last_step, updated_at |-> p.updated_at]

\* GET /projects with parameters the schema rejects: 422.
ListRejected(t, r) ==
  /\ Ready(t)
  /\ ~ValidList(r)
  /\ req' = [req EXCEPT ![t] = [kind |-> "list", params |-> r]]
  /\ resp' = [resp EXCEPT ![t] = [status |-> "ValidationError"]]
  /\ sess' = [sess EXCEPT ![t] = NoSess]
  /\ pc' = [pc EXCEPT ![t] = "done"]
  /\ note' = [note EXCEPT ![t] = ""]
  /\ UNCHANGED <<store, clock, origin>>

\* Mutant of ListProjects: listing a project stamps its updated_at.
ListProjectsTouch(t, r) ==
  /\ Ready(t)
  /\ ValidList(r)
  /\ req' = [req EXCEPT ![t] = [kind |-> "list", params |-> r]]
  /\ \E ids \in Arrangements({id \in DOMAIN store : Matches(store[id], r)}) :
       /\ OrderedDesc(ids)
       /\ resp' = [resp EXCEPT ![t] =
                     [status |-> "ok",
                      body |-> [i \in DOMAIN Limit(ids, r.limit) |->
                                  ListItem(ids[i], store[ids[i]])]]]
  /\ store' = [id \in DOMAIN store |->
                 IF Matches(store[id], r)
                 THEN [store[id] EXCEPT !.updated_at = now_utc] ELSE store[id]]
  /\ sess' = [sess EXCEPT ![t] = NoSess]
  /\ pc' = [pc EXCEPT ![t] = "done"]
  /\ note' = [note EXCEPT ![t] = ""]
  /\ UNCHANGED <<clock, origin>>

\* GET /projects: one SELECT ... WHERE ... ORDER BY updated_at DESC LIMIT.
ListProjects(t, r) ==
  /\ Ready(t)
  /\ ValidList(r)
  /\ req' = [req EXCEPT ![t] = [kind |-> "list", params |-> r]]
  /\ \E ids \in Arrangements({id \in DOMAIN store : Matches(store[id], r)}) :
       /\ OrderedDesc(ids)
       /\ resp' = [resp EXCEPT ![t] =
                     [status |-> "ok",
                      body |-> [i \in DOMAIN Limit(ids, r.limit) |->
                                  ListItem(ids[i], store[ids[i]])]]]
  /\ sess' = [sess EXCEPT ![t] = NoSess]
  /\ pc' = [pc EXCEPT ![t] = "done"]
  /\ note' = [note EXCEPT ![t] = ""]
  /\ UNCHANGED <<store, clock, origin>>

\* One client that creates, refreshes, reads and lists two projects.
NextList ==
  \/ Tick
  \/ \E r \in ListCreateReqs, id \in Ids : CreateBegin("t1", r, id)
  \/ CreateAdd("t1")
  \/ CreateCommit("t1")
  \/ \E id \in LookupIds : GetProject("t1", id)
  \/ \E id \in Ids, r \in ListUpdateReqs : UpdateQuery("t1", id, r)
  \/ UpdateModify("t1")
  \/ UpdateCommit("t1")
  \/ \E r \in ListReqs : ListRejected("t1", r)
  \/ \E r \in ListReqs : ListProjects("t1", r)

SpecList == Init /\ [][NextList]_vars

\* ------------------------------------------------- two projects in parallel
\* The project each worker thread's client works on.
Own(t) == IF t = "t1" THEN "p1" ELSE "p2"

TwoUpdateReqs ==
  { UpdateReq(Some(6), Nothing),
    UpdateReq(Some(3), Some(Dict1("step0", "A"))),
    UpdateReq(Nothing, Some(Dict1("step1", "B"))) }

\* Two clients served concurrently, each creating and updating its own project.
NextTwo ==
  \/ Tick
  \/ \E t \in Threads :
       Handler(t, {Own(t)}, {Own(t)}, SeqCreateReqs, TwoUpdateReqs)

SpecTwo == Init /\ [][NextTwo]_vars

\* ------------------------------------------------------------------ claims
\* Thread t starts a request in this step.
StartOp(t) ==
  /\ Ready(t)
  /\ <<pc[t], req[t], resp[t]>>' # <<pc[t], req[t], resp[t]>>

\* Thread t's update is committed in this step.
Committed(t) == pc[t] = "upd_commit" /\ pc'[t] = "done"

\* Thread t has answered a request of this kind with this status.
Answered(t, kind, status) ==
  pc[t] = "done" /\ req[t].kind = kind /\ resp[t].status = status

\* What an update may change besides updated_at.
Fields(p) == <<p.last_step, p.steps>>

\* C1: with one client, a successful update_project sets every step column
\* named in the submitted steps to the submitted value (None clears it) and
\* leaves every step column not named as it was.
C1_PartialUpdateIsolation ==
  [][\A t \in Threads : Committed(t) =>
       LET id == req[t].id
           d  == SubmittedSteps(req[t].body)
       IN  /\ resp'[t].status = "updated"
           /\ \A k \in {"step0", "step1", "step2", "step3", "step4", "step5"} :
                store'[id].steps[k] =
                  IF k \in DOMAIN d THEN d[k] ELSE store[id].steps[k]]_vars

\* A project whose step0 is "A" has been updated with steps = {step1: "B"}.
C1_Witness ==
  \E t \in Threads :
    /\ Answered(t, "update", "updated")
    /\ req[t].body.steps = Some(Dict1("step1", "B"))
    /\ store[req[t].id].steps["step0"] = "A"
    /\ store[req[t].id].steps["step1"] = "B"

\* C2: every stored project, and every steps mapping get_project returns,
\* has exactly the keys step0..step5; an update whose steps carry a key
\* outside that set is answered "updated", and the step columns it names
\* besides are set to the submitted values.
C2_UnknownKeyFiltering ==
  /\ [](/\ \A id \in DOMAIN store :
             DOMAIN store[id].steps =
               {"step0", "step1", "step2", "step3", "step4", "step5"}
        /\ \A t \in Threads : Answered(t, "get", "ok") =>
             DOMAIN resp[t].body.steps =
               {"step0", "step1", "step2", "step3", "step4", "step5"})
  /\ [][\A t \in Threads : Committed(t) =>
          LET d == SubmittedSteps(req[t].body)
          IN  /\ resp'[t].status = "updated"
              /\ \A k \in DOMAIN d \cap
                        {"step0", "step1", "step2", "step3", "step4", "step5"} :
                   store'[req[t].id].steps[k] = d[k]]_vars

\* An update with steps = {stepX: "A", step1: "B"} has been answered
\* "updated" and step1 holds "B".
C2_Witness ==
  \E t \in Threads :
    /\ Answered(t, "update", "updated")
    /\ "stepX" \in DOMAIN SubmittedSteps(req[t].body)
    /\ store[req[t].id].steps["step1"] = "B"
    /\ DOMAIN store[req[t].id].steps =
         {"step0", "step1", "step2", "step3", "step4", "step5"}

\* C5: with one client, an update_project that repeats the request of the
\* update just before it, on the same project, leaves last_step and the six
\* step columns as the first one left them.
C5_IdempotentPatch ==
  [][\A t \in Threads : (Committed(t) /\ note[t] = "again") =>
       Fields(store'[req[t].id]) = Fields(store[req[t].id])]_vars

\* The request last_step = 0, steps = {step1: "B"} has been applied twice
\* running to the same project.
C5_Witness ==
  \E t \in Threads :
    /\ Answered(t, "update", "updated")
    /\ note[t] = "again"
    /\ req[t].body = UpdateReq(Some(0), Some(Dict1("step1", "B")))
    /\ store[req[t].id].last_step = 0
    /\ store[req[t].id].steps["step1"] = "B"

\* The last_step of an update request lies in [0, 5], or is not given.
InRange(r) == \A n \in r.last_step : n \in 0..5

\* C6 as stated: whenever a get_project or an update_project has been
\* answered and its project_id is not in the store, the answer is NotFound.
C6_NotFoundAsStated ==
  \A t \in Threads :
    (/\ pc[t] = "done"
     /\ req[t].kind \in {"get", "update"}
     /\ req[t].id \notin DOMAIN store)
    => resp[t].status = "NotFound"

\* C6, amended: a get_project, or an update_project whose last_step is not
\* given or lies in [0, 5], on a project_id that is not in the store is
\* answered NotFound in the step that starts it, and that step leaves the
\* store as it was: no record is created and no field of a project changes.
C6_NotFound ==
  [][\A t \in Threads :
       (/\ StartOp(t)
        /\ req'[t].kind \in {"get", "update"}
        /\ req'[t].id \notin DOMAIN store
        /\ (req'[t].kind = "update" => InRange(req'[t].body)))
       => /\ resp'[t].status = "NotFound"
          /\ pc'[t] = "done"
          /\ store' = store]_vars

\* An update of a project_id that is not in the store, carrying last_step
\* and steps, has been answered NotFound while another project exists.
C6_Witness ==
  \E t \in Threads :
    /\ Answered(t, "update", "NotFound")
    /\ req[t].id \notin DOMAIN store
    /\ req[t].body.last_step # Nothing
    /\ req[t].body.steps # Nothing
    /\ DOMAIN store # {}

\* C7: every stored project has 0 <= last_step <= 5.
C7_LastStepInRange ==
  \A id \in DOMAIN store : store[id].last_step >= 0 /\ store[id].last_step <= 5

\* An update with last_step = 6 has been rejected, and the project it named
\* holds last_step = 5 from an earlier update.
C7_Witness ==
  \E t \in Threads :
    /\ Answered(t, "update", "ValidationError")
    /\ req[t].body.last_step = Some(6)
    /\ req[t].id \in DOMAIN store
    /\ store[req[t].id].last_step = 5

\* C8: an update_project whose last_step is below 0 or above 5 is answered
\* ValidationError in the step that starts it, without a session and with the
\* store left as it was, whatever steps it carries; one whose last_step is
\* any of 0..5 passes validation, and on an existing project goes on to the
\* commit, which is answered "updated".
C8_BoundsEnforcement ==
  /\ [](\A n \in -1..6 :
          ValidUpdate(UpdateReq(Some(n), Some(Dict1("step0", "A")))) <=> n \in 0..5)
  /\ [][\A t \in Threads :
          /\ (StartOp(t) /\ req'[t].kind = "update" /\ ~InRange(req'[t].body))
             => /\ resp'[t].status = "ValidationError"
                /\ pc'[t] = "done"
                /\ sess'[t] = NoSess
                /\ store' = store
          /\ (/\ StartOp(t) /\ req'[t].kind = "update"
              /\ req'[t].body.last_step # Nothing /\ InRange(req'[t].body)
              /\ req'[t].id \in DOMAIN store)
             => pc'[t] = "upd_modify"
          /\ Committed(t) => resp'[t].status = "updated"]_vars

\* An update with last_step = 6 and steps = {step0: "A"} has been rejected
\* and the project it named still has step0 empty.
C8_Witness ==
  \E t \in Threads :
    /\ Answered(t, "update", "ValidationError")
    /\ req[t].body = UpdateReq(Some(6), Some(Dict1("step0", "A")))
    /\ req[t].id \in DOMAIN store
    /\ store[req[t].id].steps["step0"] = None

\* C9 as stated: a create_project whose mode is outside the enum or whose
\* title is empty is answered ValidationError, and every stored project has
\* a non-empty title and a mode of the enum.
C9_CreateValidation ==
  /\ \A t \in Threads :
       (/\ pc[t] = "done"
        /\ req[t].kind = "create"
        /\ (req[t].body.title = << >>
              \/ req[t].body.mode \notin {"contest", "education", "startup"}))
       => resp[t].status = "ValidationError"
  /\ \A id \in DOMAIN store :
       /\ store[id].title # << >>
       /\ store[id].mode \in {"contest", "education", "startup"}

\* C10: a get_project on a project no update of which has been committed
\* returns the title, mode and description it was created with, last_step 0
\* and the six step slots empty; and a get_project on a created project is
\* answered with the project.
C10_RoundTrip ==
  /\ [](\A t \in Threads :
          (Answered(t, "get", "ok") /\ ~origin[req[t].id].touched) =>
            LET b == resp[t].body
                c == origin[req[t].id].body
            IN  /\ b.project_id = req[t].id
                /\ b.title = c.title
                /\ b.mode = c.mode
                /\ b.description = c.description
                /\ b.last_step = 0
                /\ b.steps = [k \in {"step0", "step1", "step2", "step3", "step4", "step5"}
                                |-> None])
  /\ [][\A t \in Threads :
          (StartOp(t) /\ req'[t].kind = "get" /\ req'[t].id \in DOMAIN origin)
          => resp'[t].status = "ok"]_vars

\* A project created with a description has been read back before any update.
C10_Witness ==
  \E t \in Threads :
    /\ Answered(t, "get", "ok")
    /\ ~origin[req[t].id].touched
    /\ origin[req[t].id].body.description = "d"
    /\ resp[t].body.description = "d"

\* C3 as stated: when two update_project calls on the same project have both
\* been answered, last_step and the six step slots are what running the two
\* updates one after the other, in one order or the other, leaves.
C3_SerialOutcome ==
  (\A t \in Threads : Answered(t, "update", "updated")) =>
    LET a == req["t1"].body
        b == req["t2"].body
    IN  Fields(store["p1"]) \in
          { Fields(Serial(Serial(RaceBase, a, 0), b, 0)),
            Fields(Serial(Serial(RaceBase, b, 0), a, 0)) }

\* Row p shows every write of request r, whose updated_at is now.
AllWrites(p, r, now) ==
  /\ \A n \in r.last_step : p.last_step = n
  /\ \A k \in DOMAIN SubmittedSteps(r) \cap
            {"step0", "step1", "step2", "step3", "step4", "step5"} :
       p.steps[k] = SubmittedSteps(r)[k]
  /\ p.updated_at = now

\* C4: for an update_project that no other update of the project overlaps,
\* a get_project answered while the update is between its query and its
\* commit returns last_step and the step slots as the update found them
\* (none of its writes), and the commit step puts all its writes into the
\* stored row at once: last_step, every submitted step slot and updated_at.
C4_AtomicUpdate ==
  [][\A u \in Threads :
       /\ (Committed(u) /\ sess[u].loaded = store[req[u].id])
          => AllWrites(store'[req[u].id], req[u].body, sess[u].obj.updated_at)
       /\ \A g \in Threads \ {u} :
            (/\ StartOp(g)
             /\ req'[g].kind = "get"
             /\ pc[u] \in {"upd_modify", "upd_commit"}
             /\ req'[g].id = req[u].id
             /\ sess[u].loaded = store[req[u].id])
            => /\ resp'[g].status = "ok"
               /\ Fields(resp'[g].body) = Fields(sess[u].loaded)
               /\ store' = store]_vars

\* A get_project has been answered while an update of the same project,
\* which changes last_step and a step slot, was loaded and not committed.
C4_Witness ==
  \E u \in Threads, g \in Threads :
    /\ u # g
    /\ pc[u] = "upd_commit"
    /\ Answered(g, "get", "ok")
    /\ note[g] = "overlap"
    /\ req[g].id = req[u].id
    /\ sess[u].loaded = store[req[u].id]
    /\ sess[u].obj.last_step # sess[u].loaded.last_step
    /\ sess[u].obj.steps # sess[u].loaded.steps
    /\ Fields(resp[g].body) = Fields(sess[u].loaded)

\* The title contains q as a substring, letter case included.
Contains(title, q) ==
  \E i \in 1..(Len(title) + 1) :
    i + Len(q) - 1 <= Len(title) /\ SubSeq(title, i, i + Len(q) - 1) = q

\* Thread t answers a listing in this step.
Listed(t) == StartOp(t) /\ req'[t].kind = "list" /\ resp'[t].status = "ok"

\* C11: every project list_projects returns has a title that contains the
\* supplied query as a case-sensitive substring and a mode equal to the
\* supplied mode; no project failing a supplied filter is returned.
C11_ListingFilter ==
  [][\A t \in Threads : Listed(t) =>
       LET r == req'[t].params
           body == resp'[t].body
       IN  \A i \in DOMAIN body :
             /\ body[i].project_id \in DOMAIN store
             /\ \A q \in r.query : Contains(store[body[i].project_id].title, q)
             /\ \A m \in r.mode : store[body[i].project_id].mode = m]_vars

\* C12: list_projects returns the matching projects in descending updated_at
\* order, exactly min(limit, number of matching projects) of them, each once,
\* and no matching project left out is more recently updated than one returned.
C12_OrderAndLimit ==
  [][\A t \in Threads : Listed(t) =>
       LET r == req'[t].params
           body == resp'[t].body
           matching == {id \in DOMAIN store : Matches(store[id], r)}
           returned == {body[i].project_id : i \in DOMAIN body}
       IN  /\ returned \subseteq matching
           /\ Len(body) = IF Cardinality(matching) < r.limit
                          THEN Cardinality(matching) ELSE r.limit
           /\ Cardinality(returned) = Len(body)
           /\ \A i \in DOMAIN body : body[i] = ListItem(body[i].project_id, store[body[i].project_id])
           /\ \A i, j \in DOMAIN body : i < j => body[i].updated_at >= body[j].updated_at
           /\ \A id \in matching \ returned : \A i \in DOMAIN body :
                store[id].updated_at <= body[i].updated_at]_vars

\* A listing with limit 1 and no filter has returned one of two projects whose
\* updated_at differ.
C12_Witness ==
  \E t \in Threads :
    /\ Answered(t, "list", "ok")
    /\ req[t].params = ListReq(Nothing, Nothing, 1)
    /\ Len(resp[t].body) = 1
    /\ \E a, b \in DOMAIN store : store[a].updated_at < store[b].updated_at

\* C14: get_project and list_projects, answered or refused, leave the whole
\* projects table as it was, updated_at included.
C14_ReadsHaveNoSideEffects ==
  [][\A t \in Threads :
       StartOp(t) /\ req'[t].kind \in {"get", "list"} => store' = store]_vars

\* A listing has returned a project that was last updated before the clock's
\* present reading.
C14_Witness ==
  \E t \in Threads :
    /\ Answered(t, "list", "ok")
    /\ \E i \in DOMAIN resp[t].body :
         /\ resp[t].body[i].updated_at < clock
         /\ store[resp[t].body[i].project_id].updated_at < clock

\* Thread t makes the assignments of its update in this step.
Modified(t) == pc[t] = "upd_modify" /\ pc'[t] = "upd_commit"

\* C13: with one client, update_project on an existing project with neither
\* last_step nor steps is answered "updated", sets updated_at to the reading of
\* the clock the handler took, and changes no other field of the project.
C13_NoOpPatch ==
  [][\A t \in Threads :
       req[t] # NoReq /\ req[t].kind = "update" /\ req[t].body = UpdateReq(Nothing, Nothing) =>
         /\ Modified(t) => sess'[t].obj = [sess[t].loaded EXCEPT !.updated_at = clock]
         /\ Committed(t) =>
              /\ resp'[t].status = "updated"
              /\ store'[req[t].id] =
                   [store[req[t].id] EXCEPT !.updated_at = sess[t].obj.updated_at]]_vars

\* A project at last_step 5 was updated with an empty request after the clock
\* had advanced past its creation.
C13_Witness ==
  \E t \in Threads :
    /\ Answered(t, "update", "updated")
    /\ req[t].body = UpdateReq(Nothing, Nothing)
    /\ store[req[t].id].last_step = 5
    /\ store[req[t].id].updated_at = clock
    /\ store[req[t].id].created_at < clock

\* C15: every project keeps the title, mode and description it was created
\* from and its created_at, and stays in the table under its project_id; a
\* committed update changes, in its own project, only last_step, the step
\* columns its request names and updated_at.
C15_ImmutableFields ==
  /\ [](\A id \in DOMAIN store :
          /\ store[id].title = origin[id].body.title
          /\ store[id].mode = origin[id].body.mode
          /\ store[id].description = origin[id].body.description)
  /\ [][/\ \A id \in DOMAIN store :
             /\ id \in DOMAIN store'
             /\ store'[id].created_at = store[id].created_at
             /\ store'[id].title = store[id].title
             /\ store'[id].mode = store[id].mode
             /\ store'[id].description = store[id].description
        /\ \A t \in Threads : Committed(t) =>
             \A k \in StepColumns \ DOMAIN SubmittedSteps(req[t].body) :
               store'[req[t].id].steps[k] = store[req[t].id].steps[k]]_vars

\* A project created with a description has been updated since, at a later
\* reading of the clock.
C15_Witness ==
  \E id \in DOMAIN store :
    /\ origin[id].touched
    /\ store[id].description = "d"
    /\ store[id].steps["step1"] = "B"
    /\ store[id].updated_at > store[id].created_at

\* C16: in every reachable state every project in the table has
\* updated_at >= created_at.
C16_UpdatedNotBeforeCreated ==
  \A id \in DOMAIN store : store[id].updated_at >= store[id].created_at

\* A project created at the clock's first reading and updated at a later one.
C16_Witness ==
  \E id \in DOMAIN store :
    /\ origin[id].touched
    /\ store[id].created_at = 0
    /\ store[id].updated_at = 1

\* C17: a project no update has touched has created_at equal to updated_at,
\* last_step 0 and every step column empty.
C17_CreatedEqualsUpdated ==
  \A id \in DOMAIN store :
    ~origin[id].touched =>
      /\ store[id].created_at = store[id].updated_at
      /\ store[id].last_step = 0
      /\ \A k \in StepColumns : store[id].steps[k] = None

\* C18: a step changes a row of the table only by committing an update of that
\* very project, and adds a row only under the id of the create it commits; an
\* update commits, on its own project, exactly what it would have committed
\* with no other request running.
C18_Independence ==
  [][/\ \A id \in DOMAIN store :
          /\ id \in DOMAIN store'
          /\ store'[id] # store[id] => \E t \in Threads : Committed(t) /\ req[t].id = id
     /\ \A id \in DOMAIN store' \ DOMAIN store :
          \E t \in Threads : pc[t] = "create_commit" /\ pc'[t] = "done" /\ sess[t].project_id = id
     /\ \A t \in Threads : Committed(t) =>
          /\ sess[t].loaded = store[req[t].id]
          /\ store'[req[t].id] =
               Serial(store[req[t].id], req[t].body, sess[t].obj.updated_at)]_vars

\* One update has been committed on p2 while another, which made its
\* assignments earlier, is still to be committed on p1.
C18_Witness ==
  /\ pc["t1"] = "upd_commit" /\ req["t1"].id = "p1"
  /\ Answered("t2", "update", "updated") /\ req["t2"].id = "p2"
  /\ sess["t1"].obj.updated_at < store["p2"].updated_at
  /\ store["p2"].steps["step1"] = "B"
  /\ sess["t1"].obj.last_step = 3

\* C19: with one client, a committed update that carries last_step = n leaves
\* the stored last_step at n, and one that carries none leaves it as it was;
\* every n in 0..5 is accepted and applied to every stored project, 0 and
\* values below the present one included.
C19_LastStepExact ==
  /\ [](\A id \in DOMAIN store : \A n \in 0..5 :
          /\ ValidUpdate(UpdateReq(Some(n), Nothing))
          /\ Serial(store[id], UpdateReq(Some(n), Nothing), clock).last_step = n)
  /\ [][\A t \in Threads : Committed(t) =>
          store'[req[t].id].last_step =
            IF req[t].body.last_step = Nothing
            THEN store[req[t].id].last_step
            ELSE CHOOSE n \in req[t].body.last_step : TRUE]_vars

\* An update carrying last_step = 0 is about to be committed on a project
\* whose stored last_step is 5.
C19_Witness ==
  \E t \in Threads :
    /\ pc[t] = "upd_commit"
    /\ req[t].body.last_step = Some(0)
    /\ store[req[t].id].last_step = 5
    /\ sess[t].obj.last_step = 0

====
